---- MODULE Spec2Model ----
(***************************************************************************)
(* Model of the migration agent (src/agent.py): the two artifact           *)
(* validators (validate_prometheus_rules, validate_grafana_dashboard) and  *)
(* the generate-validate-retry loop of MigrationAgent.translate_query and  *)
(* MigrationAgent.translate_dashboard.                                     *)
(*                                                                         *)
(* Texts (Python str) are sequences of string tokens: concatenation and    *)
(* f-string interpolation are \o, "x in s" is membership of a token.       *)
(* JSON values are tagged records: [t |-> "str", s |-> text],              *)
(* [t |-> "int"], [t |-> "null"], [t |-> "list", items |-> seq],           *)
(* [t |-> "dict", obj |-> function from keys to JSON values].              *)
(***************************************************************************)
EXTENDS Integers, Sequences, FiniteSets, TLC

\* ------------------------------------------------------------------ bounds
\* Largest max_retries a caller passes (app.py's slider offers 1..5).
MaxRetries == 2

\* ------------------------------------------------------------------- texts
Range(s) == {s[i] : i \in 1..Len(s)}

NL == "\n"

Whitespace == {" ", NL}

\* "\n".join(parts) for a list of texts
RECURSIVE Join(_)
Join(parts) ==
    IF Len(parts) = 0 THEN <<>>
    ELSE IF Len(parts) = 1 THEN parts[1]
    ELSE parts[1] \o <<NL>> \o Join(Tail(parts))

\* str.strip(): leading and trailing whitespace removed
RECURSIVE LStrip(_)
LStrip(s) ==
    IF Len(s) > 0 /\ s[1] \in Whitespace THEN LStrip(Tail(s)) ELSE s

RECURSIVE RStrip(_)
RStrip(s) ==
    IF Len(s) > 0 /\ s[Len(s)] \in Whitespace
    THEN RStrip(SubSeq(s, 1, Len(s) - 1)) ELSE s

Strip(s) == LStrip(RStrip(s))

\* text t occurs in text s as a contiguous run of tokens
Contains(s, t) ==
    \E i \in 0..(Len(s) - Len(t)) : SubSeq(s, i + 1, i + Len(t)) = t

\* -------------------------------------------------------------------- JSON
JStr(s) == [t |-> "str", s |-> s]
JInt == [t |-> "int"]
JNull == [t |-> "null"]
JList(items) == [t |-> "list", items |-> items]
JDict(obj) == [t |-> "dict", obj |-> obj]

\* a one-element list when cond holds, else the empty list
Opt(cond, e) == IF cond THEN <<e>> ELSE <<>>

\* ------------------------------------------- validate_grafana_dashboard
\* required_fields, in the dict's insertion order
RequiredFields == <<"title", "panels">>

ExpectedType(field) == IF field = "title" THEN "str" ELSE "list"

\* type(x).__name__
TypeName(v) == IF v.t = "null" THEN "NoneType" ELSE v.t

MissingRequired == "Missing required field:"

\* the loop over required_fields: one error per missing or mistyped field
FieldErrorOf(dashboard, field) ==
    IF field \notin DOMAIN dashboard
    THEN << <<MissingRequired, field>> >>
    ELSE IF dashboard[field].t # ExpectedType(field)
    THEN << <<"Field", field, "should be", ExpectedType(field),
              "got", TypeName(dashboard[field])>> >>
    ELSE <<>>

RequiredFieldErrors(dashboard) ==
    FieldErrorOf(dashboard, RequiredFields[1])
        \o FieldErrorOf(dashboard, RequiredFields[2])

\* f"  * {e}" for e in errors
Bullets(errors) == [n \in 1..Len(errors) |-> <<"  * ">> \o errors[n]]

SchemaFailedHeader == "Dashboard Schema Validation: FAILED"
PanelFailedHeader == "Panel Validation: FAILED"

PanelMsg(i, what) == <<"Panel", ToString(i), ":">> \o what

TargetMsg(i, j, what) ==
    <<"Panel", ToString(i), ", Target", ToString(j), ":">> \o what

GridFields == <<"x", "y", "w", "h">>

GridErrors(i, panel) ==
    IF "gridPos" \in DOMAIN panel
    THEN LET grid == panel["gridPos"].obj
             f[n \in 0..Len(GridFields)] ==
                 IF n = 0 THEN <<>>
                 ELSE f[n - 1] \o Opt(GridFields[n] \notin DOMAIN grid,
                          PanelMsg(i, <<"gridPos missing", GridFields[n]>>))
         IN f[Len(GridFields)]
    ELSE << PanelMsg(i, <<"Missing", "gridPos">>) >>

OneTargetErrors(i, j, target) ==
    Opt("expr" \notin DOMAIN target /\ "query" \notin DOMAIN target,
        TargetMsg(i, j, <<"Missing 'expr' or 'query'">>))
    \o Opt("refId" \notin DOMAIN target,
           TargetMsg(i, j, <<"Missing", "refId">>))

TargetErrors(i, panel) ==
    IF "targets" \in DOMAIN panel
    THEN LET targets == panel["targets"] IN
         IF targets.t # "list"
         THEN << PanelMsg(i, <<"'targets' should be a list">>) >>
         ELSE IF Len(targets.items) = 0
         THEN << PanelMsg(i, <<"No targets (queries) defined">>) >>
         ELSE LET f[n \in 0..Len(targets.items)] ==
                      IF n = 0 THEN <<>>
                      ELSE f[n - 1]
                           \o OneTargetErrors(i, n - 1, targets.items[n].obj)
              IN f[Len(targets.items)]
    ELSE <<>>

\* panel_errors of the panel at (0-based) index i
PanelErrors(i, panel) ==
    Opt("id" \notin DOMAIN panel, PanelMsg(i, <<"Missing", "id">>))
    \o Opt("type" \notin DOMAIN panel, PanelMsg(i, <<"Missing", "type">>))
    \o Opt("title" \notin DOMAIN panel, PanelMsg(i, <<"Missing", "title">>))
    \o GridErrors(i, panel)
    \o TargetErrors(i, panel)

NoPanelsMsg == "Dashboard has no panels"

\* the loop over the panels stopping at the first panel that has errors
AllPanelErrorsStopsAtFirst(panels) ==
    LET f[n \in 0..Len(panels)] ==
            IF n = 0 THEN Opt(Len(panels) = 0, <<NoPanelsMsg>>)
            ELSE IF f[n - 1] # <<>> THEN f[n - 1]
            ELSE PanelErrors(n - 1, panels[n].obj)
    IN f[Len(panels)]

\* the errors list after the loop over the panels
AllPanelErrors(panels) ==
    LET f[n \in 0..Len(panels)] ==
            IF n = 0 THEN Opt(Len(panels) = 0, <<NoPanelsMsg>>)
            ELSE f[n - 1] \o PanelErrors(n - 1, panels[n].obj)
    IN f[Len(panels)]

\* `"id" not in panel` raises TypeError for a panel that is null (or a number)
PanelLoopRaises(panels) == \E n \in 1..Len(panels) : panels[n].t # "dict"

AdvisoryFields == <<"uid", "schemaVersion", "time", "refresh">>

Recommended == "Recommended: Add"

Warnings(dashboard) ==
    LET f[n \in 0..Len(AdvisoryFields)] ==
            IF n = 0 THEN <<>>
            ELSE f[n - 1] \o Opt(AdvisoryFields[n] \notin DOMAIN dashboard,
                                 <<Recommended, AdvisoryFields[n]>>)
    IN f[Len(AdvisoryFields)]

\* panel.get("targets", []); here targets, when present, is a non-empty list
TargetsOf(panel) ==
    IF "targets" \in DOMAIN panel THEN panel["targets"].items ELSE <<>>

\* target.get("expr", "")
ExprOf(target) == IF "expr" \in DOMAIN target THEN target["expr"] ELSE JStr(<<>>)

\* `if expr:` -- an empty string is falsy, a (non-zero) number is truthy
Truthy(v) == IF v.t = "str" THEN v.s # <<>> ELSE v.t # "null"

EmptyBracesMsg == "Query contains empty braces/brackets"
EmptyQueryMsg == "Empty query"

OneQueryIssues(i, j, target) ==
    LET expr == ExprOf(target) IN
    IF Truthy(expr)
    THEN Opt("{}" \in Range(expr.s) \/ "[]" \in Range(expr.s),
             TargetMsg(i, j, <<EmptyBracesMsg>>))
         \o Opt(Strip(expr.s) = <<>>, TargetMsg(i, j, <<EmptyQueryMsg>>))
    ELSE <<>>

PanelQueryIssues(i, panel) ==
    LET ts == TargetsOf(panel)
        f[n \in 0..Len(ts)] ==
            IF n = 0 THEN <<>>
            ELSE f[n - 1] \o OneQueryIssues(i, n - 1, ts[n].obj)
    IN f[Len(ts)]

QueryIssues(panels) ==
    LET f[n \in 0..Len(panels)] ==
            IF n = 0 THEN <<>>
            ELSE f[n - 1] \o PanelQueryIssues(n - 1, panels[n].obj)
    IN f[Len(panels)]

\* `"{}" in expr` raises TypeError when a truthy expr is not a string
QueryLoopRaises(panels) ==
    \E n \in 1..Len(panels) : \E m \in 1..Len(TargetsOf(panels[n].obj)) :
        LET expr == ExprOf(TargetsOf(panels[n].obj)[m].obj)
        IN Truthy(expr) /\ expr.t # "str"

Verdict(valid, logs) == [raised |-> FALSE, valid |-> valid, logs |-> logs]

Raised(e) == [raised |-> TRUE, valid |-> FALSE, logs |-> e]

TypeError == <<"TypeError">>

\* dashboard.get("panels", [])
PanelsOf(dashboard) ==
    IF "panels" \in DOMAIN dashboard THEN dashboard["panels"].items ELSE <<>>

\* the part of validate_grafana_dashboard after the required-field check
ValidatePanels(dashboard) ==
    LET panels == PanelsOf(dashboard)
        errors == AllPanelErrors(panels)
        logs1 == << <<"Required fields: PASSED">>,
                    <<"Panel validation: PASSED (", ToString(Len(panels)),
                      "panels)">> >>
        warnings == Warnings(dashboard)
        logs2 == IF warnings # <<>>
                 THEN logs1 \o << <<NL, "Recommendations:">> >>
                      \o Bullets(warnings)
                 ELSE logs1
        issues == QueryIssues(panels)
        logs3 == IF issues # <<>>
                 THEN logs2 \o << <<NL, "Query Issues:">> >> \o Bullets(issues)
                 ELSE logs2
    IN IF PanelLoopRaises(panels) THEN Raised(TypeError)
       ELSE IF errors # <<>>
       THEN Verdict(FALSE, <<PanelFailedHeader, NL, NL>> \o Join(Bullets(errors)))
       ELSE IF QueryLoopRaises(panels) THEN Raised(TypeError)
       ELSE Verdict(TRUE, Join(logs3))

\* validate_grafana_dashboard going on to the panel checks when a required
\* field is missing
ValidateWithoutEarlyReturn(dashboard) ==
    LET errors == RequiredFieldErrors(dashboard) IN
    IF errors # <<>> /\ "panels" \in DOMAIN dashboard
    THEN Verdict(FALSE, <<SchemaFailedHeader, NL, NL>> \o Join(Bullets(errors)))
    ELSE IF errors # <<>>
    THEN Verdict(FALSE, <<PanelFailedHeader, NL, NL>>
                        \o Join(Bullets(errors \o AllPanelErrors(<<>>))))
    ELSE ValidatePanels(dashboard)

\* validate_grafana_dashboard(dashboard), dashboard a dict
validate_grafana_dashboard(dashboard) ==
    LET errors == RequiredFieldErrors(dashboard) IN
    IF errors # <<>>
    THEN Verdict(FALSE, <<SchemaFailedHeader, NL, NL>> \o Join(Bullets(errors)))
    ELSE ValidatePanels(dashboard)

\* ------------------------------------------------- dashboards to validate
\* Longest panels list of the dashboards enumerated below.
MaxPanels == 2

Target(fields) == JDict(fields)

TargetOk == Target([expr |-> JStr(<<"up">>), refId |-> JStr(<<"A">>)])
TargetQueryOnly == Target([query |-> JStr(<<"up">>), refId |-> JStr(<<"A">>)])
TargetNoExpr == Target([refId |-> JStr(<<"A">>)])
TargetNoRefId == Target([expr |-> JStr(<<"up">>)])
TargetBraces == Target([expr |-> JStr(<<"up", "{}">>), refId |-> JStr(<<"A">>)])
TargetBrackets == Target([expr |-> JStr(<<"rate(x", "[]", ")">>), refId |-> JStr(<<"A">>)])
TargetEmptyExpr == Target([expr |-> JStr(<<>>), refId |-> JStr(<<"A">>)])
TargetBlankExpr == Target([expr |-> JStr(<<" ">>), refId |-> JStr(<<"A">>)])
TargetIntExpr == Target([expr |-> JInt, refId |-> JStr(<<"A">>)])

TargetSet ==
    {TargetOk, TargetQueryOnly, TargetNoExpr, TargetNoRefId, TargetBraces,
     TargetBrackets, TargetEmptyExpr, TargetBlankExpr, TargetIntExpr}

\* the values of a panel's "targets": not a list, or a list of up to two targets
TargetsChoices ==
    {JDict(<<>>), JList(<<>>)}
    \cup {JList(<<a>>) : a \in TargetSet}
    \cup {JList(<<a, b>>) : a \in {TargetOk, TargetNoExpr}, b \in TargetSet}
    \cup {JList(<<TargetBraces, TargetBlankExpr>>)}

PanelKeys == {"id", "type", "title"}

Grid(keys) == JDict([k \in keys |-> JInt])

\* a panel with the given plain keys, gridPos (a set holding the grid, or
\* empty) and targets (a set holding the value, or empty)
Panel(keys, grid, targets) ==
    JDict([k \in keys \cup (IF grid = {} THEN {} ELSE {"gridPos"})
                      \cup (IF targets = {} THEN {} ELSE {"targets"}) |->
           IF k = "gridPos" THEN CHOOSE g \in grid : TRUE
           ELSE IF k = "targets" THEN CHOOSE v \in targets : TRUE
           ELSE IF k = "id" THEN JInt ELSE JStr(<<k>>)])

FullGrid == Grid({"x", "y", "w", "h"})

ValidPanel == Panel(PanelKeys, {FullGrid}, {JList(<<TargetOk>>)})

PanelSet ==
    {Panel(keys, grid, targets) :
        keys \in {PanelKeys, {"type", "title"}, {"id"}},
        grid \in {{}, {FullGrid}, {Grid({"y", "w"})}},
        targets \in {{}, {JList(<<TargetOk>>)}}}
    \cup {Panel(PanelKeys, {FullGrid}, {v}) : v \in TargetsChoices}
    \cup {JNull}

PanelLists == UNION {[1..n -> PanelSet] : n \in 0..MaxPanels}

\* a dashboard with the given title and panels (each a set holding the value,
\* or empty) and the given advisory fields
Dashboard(title, panels, advisory) ==
    [k \in (IF title = {} THEN {} ELSE {"title"})
           \cup (IF panels = {} THEN {} ELSE {"panels"}) \cup advisory |->
     IF k = "title" THEN CHOOSE v \in title : TRUE
     ELSE IF k = "panels" THEN CHOOSE v \in panels : TRUE
     ELSE IF k = "schemaVersion" THEN JInt ELSE JStr(<<k>>)]

TitleChoices == {{}, {JStr(<<"T">>)}, {JInt}}

AdvisorySet == {"uid", "schemaVersion", "time", "refresh"}

BadPanel == Panel({"id", "type", "title"}, {}, {JList(<<>>)})

\* every top-level shape, over a few panels values
TopLevelDashboards ==
    {Dashboard(title, panels, advisory) :
        title \in TitleChoices,
        panels \in {{}, {JDict(<<>>)}, {JNull}, {JList(<<>>)},
                    {JList(<<ValidPanel>>)}, {JList(<<BadPanel>>)}},
        advisory \in SUBSET AdvisorySet}

\* a well-formed top level over every panels list
PanelDashboards ==
    {Dashboard({JStr(<<"T">>)}, {JList(ps)}, advisory) :
        ps \in PanelLists, advisory \in {{}, AdvisorySet}}

Dashboards == TopLevelDashboards \cup PanelDashboards

\* ------------------------------------------------------------------ state
VARIABLES
    kind,           \* "query" (translate_query) or "dashboard" (translate_dashboard)
    max_retries,    \* the caller's bound
    on_attempt,     \* TRUE when the caller supplied the callback
    on_validation,  \* TRUE when the caller supplied the callback
    messages,       \* the conversation
    attempt,        \* the loop variable
    pc,             \* position of the run
    content,        \* raw completion of the current attempt
    data,           \* json.loads(content)
    verdict,        \* (valid, logs) of the last validator call
    result,         \* what the run returned
    vpc,            \* position inside validate_prometheus_rules
    tmpfiles,       \* what exists of the temporary directory
    vlogs,          \* validate_prometheus_rules' logs list
    check_result,   \* outcome of `promtool check rules`
    test_result,    \* outcome of `promtool test rules`
    invocations,    \* promtool sub-commands run by the current validator call
    genCalls,       \* history: the conversation given to each generator call
    verdicts,       \* history: every verdict a validator returned in this run
    dashboard,      \* input of a stand-alone validate_grafana_dashboard call
    dverdict,       \* its outcome
    compare,        \* "none": one call; "rerun", "callbacks", "concurrent":
                    \* a call alone, then the same call again (once, or twice
                    \* at the same time)
    run,            \* 1 during the first call, 2 (and 3) during the later ones
    first,          \* what the first call did
    other,          \* the locals of the call that is not running now
    genScript,      \* what the generator stub does at each of its calls
    procScript,     \* what file system and promtool do at each of their uses
    procCalls,      \* uses of file system and promtool in this call
    cbScript,       \* what the callbacks do at each of their calls
    cbCalls         \* callback calls in this call

orchVars == <<kind, max_retries, on_attempt, on_validation, messages, attempt,
              pc, content, data, verdict, result, genCalls, verdicts>>

ruleVars == <<vpc, tmpfiles, vlogs, check_result, test_result, invocations>>

dashVars == <<dashboard, dverdict>>

pairVars == <<compare, run, first, other>>

genStubVars == <<genScript>>

procStubVars == <<procScript, procCalls>>

cbStubVars == <<cbScript, cbCalls>>

twinVars == <<pairVars, genStubVars, procStubVars, cbStubVars>>

vars == <<orchVars, ruleVars, dashVars, twinVars>>

\* ------------------------------------------------ validate_prometheus_rules
Stdouts == {<<"out1">>, <<"out2", NL>>}
Stderrs == {<<"err1">>}

NoProc == [kind |-> "none", rc |-> 0, stdout |-> <<>>, stderr |-> <<>>]

Exit(rc, out, err) == [kind |-> "exit", rc |-> rc, stdout |-> out, stderr |-> err]

Fault(k) == [kind |-> k, rc |-> 0, stdout |-> <<>>, stderr |-> <<>>]

\* what subprocess.run can do: exit with a status, time out, find no
\* executable (FileNotFoundError), or fail otherwise (OSError)
ProcOutcomes ==
    {Exit(0, out, <<>>) : out \in Stdouts}
    \cup {Exit(1, out, err) : out \in Stdouts, err \in Stderrs}
    \cup {Fault("timeout"), Fault("notfound"), Fault("oserror")}

\* str(e) of the exception subprocess.run raised
ProcErrorText(p) ==
    IF p.kind = "notfound"
    THEN <<"[Errno 2] No such file or directory: 'promtool'">>
    ELSE <<"OSError">>

WriteErrorLog(e) == <<"Error writing YAML files:">> \o e

SyntaxFailedMsg(p) ==
    <<"Syntax Check: FAILED", NL, NL, "STDOUT:", NL>> \o p.stdout
        \o <<NL, NL, "STDERR:", NL>> \o p.stderr

SyntaxPassedLogs(p) ==
    << <<"Syntax Check: PASSED">>, <<"   ">> \o Strip(p.stdout) >>

SyntaxTimeoutLog == <<"Syntax validation timeout">>
NotFoundLog == <<"promtool not found (not in container?)">>
SyntaxErrorLog(e) == <<"Syntax check error:">> \o e

TestsFailedMsg(p) ==
    <<"Unit Tests: FAILED", NL, NL, "STDOUT:", NL>> \o p.stdout
        \o <<NL, NL, "STDERR:", NL>> \o p.stderr

TestsPassedLogs(p) == << <<"Unit Tests: PASSED">>, <<NL>> \o p.stdout >>

TestTimeoutLog == <<"Test execution timeout">>
TestErrorLog(e) == <<"Test execution error:">> \o e

TmpDir == "tmpdir"
RulePath == "tmpdir/rules.yml"
TestPath == "tmpdir/tests.yml"

\* TemporaryDirectoryExit for a directory made with mkdtemp and never removed
DirectoryLeftBehind(files) == files

\* leaving `with tempfile.TemporaryDirectory()`: the directory and all in it
\* are removed, whichever way the block is left
TemporaryDirectoryExit(files) == {}

\* --------------------------------------------------------- MigrationAgent
QUERY_TRANSLATION_PROMPT == <<"QUERY_TRANSLATION_PROMPT">>
DASHBOARD_TRANSLATION_PROMPT == <<"DASHBOARD_TRANSLATION_PROMPT">>

\* the caller's datadog_query / datadog_dashboard_json
Request == <<"legacy definition">>

Message(role, text) == [role |-> role, content |-> text]

InitialMessages(k) ==
    IF k = "query"
    THEN << Message("system", QUERY_TRANSLATION_PROMPT),
            Message("user", <<"Translate this monitoring query:", NL>> \o Request) >>
    ELSE << Message("system", DASHBOARD_TRANSLATION_PROMPT),
            Message("user", <<"Translate this Datadog dashboard to Grafana:", NL>>
                            \o Request) >>

\* the follow-up user turn built from the failing verdict's logs
CorrectionText(k, logs) ==
    IF k = "query"
    THEN <<"The previous output failed validation with these errors:", NL, NL>>
         \o logs \o <<NL, NL, "Fix the errors and generate valid YAML. Make sure: 1..5">>
    ELSE <<"The dashboard failed schema validation with these errors:", NL, NL>>
         \o logs
         \o <<NL, NL, "Fix the errors and regenerate a valid Grafana dashboard. Make sure: 1..6">>

None == [none |-> TRUE]

NoResult == [returned |-> FALSE]

Ret(success, artifact, log) ==
    [returned |-> TRUE, success |-> success, artifact |-> artifact, log |-> log]

\* exceptions of self.client.chat.completions.create, as str(e)
GeneratorErrors == {<<"ProviderError">>, <<"TimeoutError">>}

\* completions the generator can return
QueryContents ==
    {<<"not json">>, <<"{reasoning, rule_yaml}">>, <<"{query 1}">>, <<"{query 2}">>}

DashboardContents ==
    {<<"not json">>, <<"{reasoning}">>, <<"{dashboard: list}">>, <<"{dashboard ok}">>,
     <<"{dashboard ok, no reasoning}">>, <<"{dashboard without panels}">>,
     <<"{dashboard bad panel}">>, <<"{dashboard null panel}">>}

Contents(k) == IF k = "query" THEN QueryContents ELSE DashboardContents

Decoded(d) == [ok |-> TRUE, data |-> d]

JSONDecodeError == [ok |-> FALSE, data |-> None]

QueryData(n) ==
    [reasoning |-> JStr(<<"reasoning", n>>), rule_yaml |-> JStr(<<"rules", n>>),
     test_yaml |-> JStr(<<"tests", n>>)]

DashboardData(d) ==
    [reasoning |-> JStr(<<"reasoning">>), grafana_dashboard |-> d]

\* json.loads(content)
JsonLoads(c) ==
    CASE c = <<"not json">> -> JSONDecodeError
      [] c = <<"{reasoning, rule_yaml}">> ->
            Decoded([reasoning |-> JStr(<<"reasoning">>), rule_yaml |-> JStr(<<"rules">>)])
      [] c = <<"{query 1}">> -> Decoded(QueryData("1"))
      [] c = <<"{query 2}">> -> Decoded(QueryData("2"))
      [] c = <<"{reasoning}">> -> Decoded([reasoning |-> JStr(<<"reasoning">>)])
      [] c = <<"{dashboard: list}">> -> Decoded(DashboardData(JList(<<>>)))
      [] c = <<"{dashboard ok}">> ->
            Decoded(DashboardData(JDict(
                Dashboard({JStr(<<"T">>)}, {JList(<<ValidPanel>>)}, {"uid"}))))
      [] c = <<"{dashboard ok, no reasoning}">> ->
            Decoded([grafana_dashboard |-> JDict(
                Dashboard({JStr(<<"T">>)}, {JList(<<ValidPanel>>)}, AdvisorySet))])
      [] c = <<"{dashboard without panels}">> ->
            Decoded(DashboardData(JDict(Dashboard({JStr(<<"T">>)}, {}, {}))))
      [] c = <<"{dashboard bad panel}">> ->
            Decoded(DashboardData(JDict(
                Dashboard({JStr(<<"T">>)}, {JList(<<ValidPanel, BadPanel>>)}, {}))))
      [] c = <<"{dashboard null panel}">> ->
            Decoded(DashboardData(JDict(
                Dashboard({JStr(<<"T">>)}, {JList(<<JNull>>)}, {}))))

RequiredQueryFields == <<"reasoning", "rule_yaml", "test_yaml">>

\* Missing with a required list that leaves test_yaml out
MissingIgnoresTests(d) ==
    SelectSeq(<<"reasoning", "rule_yaml">>, LAMBDA k : k \notin DOMAIN d)

\* [k for k in required if k not in data]
Missing(d) == SelectSeq(RequiredQueryFields, LAMBDA k : k \notin DOMAIN d)

\* Except with a failed attempt retried without being counted
ExceptRetriesSameAttempt(decodeError, e) ==
    /\ pc' = "create"
    /\ UNCHANGED result

\* Except re-raising on the last attempt instead of returning
ExceptPropagates(decodeError, e) ==
    /\ pc' = IF attempt = max_retries THEN "raised" ELSE "for"
    /\ UNCHANGED result

\* Except returning the loop's fall-through text instead of the error
ExceptGenericMessage(decodeError, e) ==
    IF attempt = max_retries
    THEN /\ result' = Ret(FALSE, None, <<"Max retries reached">>)
         /\ pc' = "done"
    ELSE /\ pc' = "for"
         /\ UNCHANGED result

\* Except without the return on the last attempt
ExceptNeverReturns(decodeError, e) ==
    /\ pc' = "for"
    /\ UNCHANGED result

\* the two except clauses of the attempt's try block: the failure is
\* returned on the last attempt and dropped on the others
Except(decodeError, e) ==
    IF attempt = max_retries
    THEN /\ result' = Ret(FALSE, None,
                          IF decodeError THEN <<"JSON parsing failed:">> \o e ELSE e)
         /\ pc' = "done"
    ELSE /\ pc' = "for"
         /\ UNCHANGED result

VerdictRecord(valid, logs) ==
    [attempt |-> attempt, artifact |-> data, valid |-> valid, logs |-> logs]

NoVerdict == Verdict(FALSE, <<>>)

\* ----------------------------------------------------- scripted collaborators
\* When two calls are compared the collaborators are stubs that work from a
\* script: the first call writes the script as it goes, the second is given
\* at its n-th use what the first was given at its n-th use, and goes on
\* writing where it gets further than the first.
Replaying(script, n) == run >= 2 /\ n <= Len(script)

Extended(script, n, o) ==
    IF compare = "none" \/ n <= Len(script) THEN script ELSE Append(script, o)

GenOutcome(raises, text) == [raises |-> raises, text |-> text]

\* the generator stub at this call
GenStub(o) ==
    LET n == Len(genCalls) + 1 IN
    /\ Replaying(genScript, n) => genScript[n] = o
    /\ genScript' = Extended(genScript, n, o)

ProcOutcome(step, files, p) == [step |-> step, files |-> files, proc |-> p]

\* the file system or promtool at this use
ProcStub(o) ==
    LET n == procCalls + 1 IN
    /\ Replaying(procScript, n) => procScript[n] = o
    /\ procScript' = Extended(procScript, n, o)
    /\ procCalls' = IF compare = "none" THEN procCalls ELSE n

\* a supplied callback at this call: scripted when the same call is made
\* twice, free when the two calls differ in their callbacks
CbStub(raises) ==
    IF compare = "rerun"
    THEN LET n == cbCalls + 1 IN
         /\ Replaying(cbScript, n) => cbScript[n] = raises
         /\ cbScript' = Extended(cbScript, n, raises)
         /\ cbCalls' = n
    ELSE UNCHANGED cbStubVars

\* what subprocess.run does in a call that is compared with another: one
\* outcome of each kind the validator tells apart
ScriptedProcOutcomes ==
    {Exit(0, <<"out1">>, <<>>), Exit(1, <<"out2", NL>>, <<"err1">>),
     Fault("timeout")}

ProcChoices ==
    IF compare = "none" THEN ProcOutcomes ELSE ScriptedProcOutcomes

\* what a finished call leaves to compare: its result, its loop variable, its
\* conversation, and what its generator and validator calls were given and gave
Done ==
    [result |-> result, attempt |-> attempt, messages |-> messages,
     genCalls |-> genCalls, verdicts |-> verdicts]

NoFirst ==
    [result |-> NoResult, attempt |-> 0, messages |-> <<>>, genCalls |-> <<>>,
     verdicts |-> <<>>]

NoFrame == [pc |-> "none"]

\* the first call begins: nothing is scripted yet
Calls(c) ==
    /\ compare = c
    /\ run = 1
    /\ first = NoFirst
    /\ other = NoFrame
    /\ genScript = <<>>
    /\ procScript = <<>>
    /\ procCalls = 0
    /\ cbScript = <<>>
    /\ cbCalls = 0

\* one call, nothing scripted
OneCall == Calls("none")

\* a call is entered: its arguments, and its locals before the loop
Entered ==
    /\ kind \in {"query", "dashboard"}
    /\ max_retries \in 0..MaxRetries
    /\ on_attempt \in BOOLEAN
    /\ on_validation \in BOOLEAN
    /\ messages = InitialMessages(kind)
    /\ attempt = 0
    /\ pc = "for"
    /\ content = <<>>
    /\ data = None
    /\ verdict = NoVerdict
    /\ result = NoResult
    /\ vpc = "enter"
    /\ tmpfiles = {}
    /\ vlogs = <<>>
    /\ check_result = NoProc
    /\ test_result = NoProc
    /\ invocations = <<>>
    /\ genCalls = <<>>
    /\ verdicts = <<>>
    /\ dashboard = <<>>
    /\ dverdict = NoVerdict

Init == Entered /\ OneCall

\* for attempt in range(1, max_retries + 1), and the return after the loop
ForLoop ==
    /\ pc = "for"
    /\ IF attempt < max_retries
       THEN /\ attempt' = attempt + 1
            /\ pc' = "create"
            /\ UNCHANGED result
       ELSE /\ result' = Ret(FALSE, None, <<"Max retries reached">>)
            /\ pc' = "done"
            /\ UNCHANGED attempt
    /\ UNCHANGED <<kind, max_retries, on_attempt, on_validation, messages, content,
                   data, verdict, genCalls, verdicts, ruleVars, dashVars, twinVars>>

\* GeneratorRaises with the error fed back into the conversation
GeneratorRaisesWithFeedback ==
    /\ pc = "create"
    /\ \E e \in GeneratorErrors :
          /\ GenStub(GenOutcome(TRUE, e))
          /\ Except(FALSE, e)
          /\ messages' = Append(messages, Message("user", <<"The request failed:">> \o e))
    /\ genCalls' = Append(genCalls, messages)
    /\ UNCHANGED <<kind, max_retries, on_attempt, on_validation, attempt,
                   content, data, verdict, verdicts, ruleVars, dashVars, pairVars, procStubVars, cbStubVars>>

\* self.client.chat.completions.create(...) raises
GeneratorRaises ==
    /\ pc = "create"
    /\ \E e \in GeneratorErrors :
          /\ GenStub(GenOutcome(TRUE, e))
          /\ Except(FALSE, e)
    /\ genCalls' = Append(genCalls, messages)
    /\ UNCHANGED <<kind, max_retries, on_attempt, on_validation, messages, attempt,
                   content, data, verdict, verdicts, ruleVars, dashVars, pairVars, procStubVars, cbStubVars>>

\* self.client.chat.completions.create(...) returns a completion
GeneratorReturns ==
    /\ pc = "create"
    /\ \E c \in Contents(kind) :
          /\ GenStub(GenOutcome(FALSE, c))
          /\ content' = c
    /\ genCalls' = Append(genCalls, messages)
    /\ pc' = "parse"
    /\ UNCHANGED <<kind, max_retries, on_attempt, on_validation, messages, attempt,
                   data, verdict, result, verdicts, ruleVars, dashVars, pairVars, procStubVars, cbStubVars>>

\* data = json.loads(content) and the check of the required fields
Parse ==
    /\ pc = "parse"
    /\ LET r == JsonLoads(content) IN
       IF ~r.ok
       THEN /\ Except(TRUE, <<"Expecting value">>)
            /\ UNCHANGED data
       ELSE /\ data' = r.data
            /\ IF kind = "query"
               THEN IF Missing(r.data) # <<>>
                    THEN Except(FALSE, <<"Missing required fields:">> \o Missing(r.data))
                    ELSE pc' = "on_attempt" /\ UNCHANGED result
               ELSE IF "grafana_dashboard" \notin DOMAIN r.data
                    THEN Except(FALSE, <<"Missing 'grafana_dashboard' in response">>)
                    ELSE pc' = "on_attempt" /\ UNCHANGED result
    /\ UNCHANGED <<kind, max_retries, on_attempt, on_validation, messages, attempt,
                   content, verdict, genCalls, verdicts, ruleVars, dashVars, twinVars>>

\* if on_attempt: on_attempt(attempt, reasoning) -- absent, or it returns
OnAttemptReturns ==
    /\ pc = "on_attempt"
    /\ IF on_attempt THEN CbStub(FALSE) ELSE UNCHANGED cbStubVars
    /\ pc' = "validate"
    /\ UNCHANGED <<kind, max_retries, on_attempt, on_validation, messages, attempt,
                   content, data, verdict, result, genCalls, verdicts, ruleVars,
                   dashVars, pairVars, genStubVars, procStubVars>>

\* on_attempt raises (translate_query also raises here when data['reasoning']
\* cannot be read, which the required-field check excludes)
OnAttemptRaises ==
    /\ pc = "on_attempt"
    /\ on_attempt
    /\ CbStub(TRUE)
    /\ Except(FALSE, <<"on_attempt failed">>)
    /\ UNCHANGED <<kind, max_retries, on_attempt, on_validation, messages, attempt,
                   content, data, verdict, genCalls, verdicts, ruleVars, dashVars, pairVars, genStubVars, procStubVars>>

\* `return valid, logs` inside the with block of validate_prometheus_rules, and
\* the assignment `valid, logs = ...` in translate_query
RuleValidatorReturns(valid, logs, files) ==
    /\ tmpfiles' = TemporaryDirectoryExit(files)
    /\ verdict' = Verdict(valid, logs)
    /\ verdicts' = Append(verdicts, VerdictRecord(valid, logs))
    /\ vpc' = "enter"
    /\ pc' = "on_validation"

\* validate_prometheus_rules is entered: the temporary directory is made and
\* the two files are written
WriteFiles ==
    /\ pc = "validate" /\ kind = "query" /\ vpc = "enter"
    /\ ProcStub(ProcOutcome("write", {TmpDir, RulePath, TestPath}, NoProc))
    /\ tmpfiles' = {TmpDir, RulePath, TestPath}
    /\ vlogs' = <<>>
    /\ check_result' = NoProc
    /\ test_result' = NoProc
    /\ invocations' = <<>>
    /\ vpc' = "check"
    /\ UNCHANGED <<orchVars, dashVars, pairVars, genStubVars, cbStubVars>>

\* open() or write() raises on one of the two files: the file being written
\* may or may not exist by then
WriteFilesFails ==
    /\ pc = "validate" /\ kind = "query" /\ vpc = "enter"
    /\ \E created \in {{TmpDir}, {TmpDir, RulePath}, {TmpDir, RulePath, TestPath}} :
          /\ ProcStub(ProcOutcome("write fails", created, NoProc))
          /\ RuleValidatorReturns(FALSE, WriteErrorLog(<<"OSError">>), created)
    /\ vlogs' = <<>>
    /\ check_result' = NoProc
    /\ test_result' = NoProc
    /\ invocations' = <<>>
    /\ UNCHANGED <<kind, max_retries, on_attempt, on_validation, messages, attempt,
                   content, data, result, genCalls, dashVars, pairVars, genStubVars, cbStubVars>>

\* tempfile.TemporaryDirectory() itself raises: nothing in the validator
\* catches it, the attempt's try block does
TemporaryDirectoryFails ==
    /\ pc = "validate" /\ kind = "query" /\ vpc = "enter"
    /\ ProcStub(ProcOutcome("mkdtemp fails", {}, NoProc))
    /\ Except(FALSE, <<"OSError">>)
    /\ UNCHANGED <<kind, max_retries, on_attempt, on_validation, messages, attempt,
                   content, data, verdict, genCalls, verdicts, ruleVars, dashVars, pairVars, genStubVars, cbStubVars>>

\* ExitedZero without the look at the status
ExitedAtAll(p) == p.kind = "exit"

\* ExitedZero taking a run that timed out for a clean exit
ExitedZeroOrTimedOut(p) == p.kind = "timeout" \/ (p.kind = "exit" /\ p.rc = 0)

\* `if result.returncode == 0` of either step
ExitedZero(p) == p.kind = "exit" /\ p.rc = 0

\* CheckCatches with only the TimeoutExpired clause
CheckCatchesTimeoutOnly(p) == p.kind = "timeout"

\* step 1's except clauses: TimeoutExpired, FileNotFoundError, Exception
CheckCatches(p) == p.kind \in {"timeout", "notfound", "oserror"}

\* step 2's except clauses: TimeoutExpired, Exception
TestCatches(p) == p.kind \in {"timeout", "notfound", "oserror"}

\* an exception no clause of the validator catches leaves the with block (the
\* directory is removed) and reaches the attempt's try block
RuleValidatorRaises(e) ==
    /\ tmpfiles' = TemporaryDirectoryExit(tmpfiles)
    /\ vpc' = "enter"
    /\ Except(FALSE, e)
    /\ UNCHANGED <<verdict, verdicts>>

\* Step 1: promtool check rules
CheckRules ==
    /\ pc = "validate" /\ kind = "query" /\ vpc = "check"
    /\ invocations' = Append(invocations, <<"promtool", "check", "rules", RulePath>>)
    /\ UNCHANGED test_result
    /\ \E p \in ProcChoices :
        /\ ProcStub(ProcOutcome("check", tmpfiles, p))
        /\ check_result' = p
        /\ IF ExitedZero(p)
           THEN /\ vlogs' = vlogs \o SyntaxPassedLogs(p)
                /\ vpc' = "test"
                /\ UNCHANGED <<tmpfiles, verdict, verdicts, pc, result>>
           ELSE IF p.kind = "exit"
           THEN /\ vlogs' = Append(vlogs, SyntaxFailedMsg(p))
                /\ RuleValidatorReturns(FALSE, Join(vlogs'), tmpfiles)
                /\ UNCHANGED result
           ELSE IF CheckCatches(p)
           THEN /\ UNCHANGED vlogs
                /\ RuleValidatorReturns(FALSE,
                      CASE p.kind = "timeout" -> SyntaxTimeoutLog
                        [] p.kind = "notfound" -> NotFoundLog
                        [] OTHER -> SyntaxErrorLog(ProcErrorText(p)),
                      tmpfiles)
                /\ UNCHANGED result
           ELSE /\ UNCHANGED vlogs
                /\ RuleValidatorRaises(ProcErrorText(p))
    /\ UNCHANGED <<kind, max_retries, on_attempt, on_validation, messages, attempt,
                   content, data, genCalls, dashVars, pairVars, genStubVars, cbStubVars>>

\* Step 2: promtool test rules
TestRules ==
    /\ pc = "validate" /\ kind = "query" /\ vpc = "test"
    /\ invocations' = Append(invocations, <<"promtool", "test", "rules", TestPath>>)
    /\ UNCHANGED check_result
    /\ \E p \in ProcChoices :
        /\ ProcStub(ProcOutcome("test", tmpfiles, p))
        /\ test_result' = p
        /\ IF ExitedZero(p)
           THEN /\ vlogs' = vlogs \o TestsPassedLogs(p)
                /\ RuleValidatorReturns(TRUE, Join(vlogs'), tmpfiles)
                /\ UNCHANGED result
           ELSE IF p.kind = "exit"
           THEN /\ vlogs' = Append(vlogs, TestsFailedMsg(p))
                /\ RuleValidatorReturns(FALSE, Join(vlogs'), tmpfiles)
                /\ UNCHANGED result
           ELSE IF TestCatches(p)
           THEN /\ UNCHANGED vlogs
                /\ RuleValidatorReturns(FALSE,
                      IF p.kind = "timeout" THEN TestTimeoutLog
                      ELSE TestErrorLog(ProcErrorText(p)),
                      tmpfiles)
                /\ UNCHANGED result
           ELSE /\ UNCHANGED vlogs
                /\ RuleValidatorRaises(ProcErrorText(p))
    /\ UNCHANGED <<kind, max_retries, on_attempt, on_validation, messages, attempt,
                   content, data, genCalls, dashVars, pairVars, genStubVars, cbStubVars>>

\* translate_dashboard: the isinstance check, then validate_grafana_dashboard
ValidateDashboard ==
    /\ pc = "validate" /\ kind = "dashboard"
    /\ LET d == data["grafana_dashboard"] IN
       IF d.t # "dict"
       THEN /\ Except(FALSE, <<"Dashboard is not a valid JSON object">>)
            /\ UNCHANGED <<verdict, verdicts>>
       ELSE LET v == validate_grafana_dashboard(d.obj) IN
            IF v.raised
            THEN /\ Except(FALSE, v.logs)
                 /\ UNCHANGED <<verdict, verdicts>>
            ELSE /\ verdict' = v
                 /\ verdicts' = Append(verdicts, VerdictRecord(v.valid, v.logs))
                 /\ pc' = "on_validation"
                 /\ UNCHANGED result
    /\ UNCHANGED <<kind, max_retries, on_attempt, on_validation, messages, attempt,
                   content, data, genCalls, ruleVars, dashVars, twinVars>>

\* if on_validation: on_validation(valid, logs) -- absent, or it returns
OnValidationReturns ==
    /\ pc = "on_validation"
    /\ IF on_validation THEN CbStub(FALSE) ELSE UNCHANGED cbStubVars
    /\ pc' = "decide"
    /\ UNCHANGED <<kind, max_retries, on_attempt, on_validation, messages, attempt,
                   content, data, verdict, result, genCalls, verdicts, ruleVars,
                   dashVars, pairVars, genStubVars, procStubVars>>

\* on_validation raises
OnValidationRaises ==
    /\ pc = "on_validation"
    /\ on_validation
    /\ CbStub(TRUE)
    /\ Except(FALSE, <<"on_validation failed">>)
    /\ UNCHANGED <<kind, max_retries, on_attempt, on_validation, messages, attempt,
                   content, data, verdict, genCalls, verdicts, ruleVars, dashVars, pairVars, genStubVars, procStubVars>>

\* Corrected keeping the system turn only in front of the two new turns
CorrectedTruncates(msgs) ==
    << msgs[1], Message("assistant", content),
       Message("user", CorrectionText(kind, verdict.logs)) >>

\* the two turns appended after a failing verdict
Corrected(msgs) ==
    msgs \o << Message("assistant", content),
               Message("user", CorrectionText(kind, verdict.logs)) >>

\* Decide returning the last attempt's artifact as a success
DecideAcceptsLastAttempt ==
    /\ pc = "decide"
    /\ IF verdict.valid \/ attempt >= max_retries
       THEN /\ result' = Ret(TRUE, data, verdict.logs)
            /\ pc' = "done"
            /\ UNCHANGED messages
       ELSE /\ messages' = Corrected(messages)
            /\ pc' = "for"
            /\ UNCHANGED result
    /\ UNCHANGED <<kind, max_retries, on_attempt, on_validation, attempt, content,
                   data, verdict, genCalls, verdicts, ruleVars, dashVars, twinVars>>

\* Decide returning the logs of all the verdicts of the run, one after another
DecideMergesLogs ==
    /\ pc = "decide"
    /\ LET all[n \in 0..Len(verdicts)] ==
               IF n = 0 THEN <<>> ELSE all[n - 1] \o verdicts[n].logs
       IN IF verdict.valid
          THEN /\ result' = Ret(TRUE, data, all[Len(verdicts)])
               /\ pc' = "done"
               /\ UNCHANGED messages
          ELSE IF attempt < max_retries
          THEN /\ messages' = Corrected(messages)
               /\ pc' = "for"
               /\ UNCHANGED result
          ELSE /\ result' = Ret(FALSE, data, all[Len(verdicts)])
               /\ pc' = "done"
               /\ UNCHANGED messages
    /\ UNCHANGED <<kind, max_retries, on_attempt, on_validation, attempt, content,
                   data, verdict, genCalls, verdicts, ruleVars, dashVars, twinVars>>

\* Decide never getting to the correction of a failing verdict
DecideWaits ==
    /\ pc = "decide"
    /\ IF verdict.valid
       THEN /\ result' = Ret(TRUE, data, verdict.logs)
            /\ pc' = "done"
       ELSE IF attempt < max_retries
       THEN UNCHANGED <<result, pc>>
       ELSE /\ result' = Ret(FALSE, data, verdict.logs)
            /\ pc' = "done"
    /\ UNCHANGED <<kind, max_retries, on_attempt, on_validation, messages, attempt,
                   content, data, verdict, genCalls, verdicts, ruleVars, dashVars,
                   twinVars>>

\* if valid: return ... else: feed the errors back, or give up
Decide ==
    /\ pc = "decide"
    /\ IF verdict.valid
       THEN /\ result' = Ret(TRUE, data, verdict.logs)
            /\ pc' = "done"
            /\ UNCHANGED messages
       ELSE IF attempt < max_retries
       THEN /\ messages' = Corrected(messages)
            /\ pc' = "for"
            /\ UNCHANGED result
       ELSE /\ result' = Ret(FALSE, data, verdict.logs)
            /\ pc' = "done"
            /\ UNCHANGED messages
    /\ UNCHANGED <<kind, max_retries, on_attempt, on_validation, attempt, content,
                   data, verdict, genCalls, verdicts, ruleVars, dashVars, twinVars>>

Next ==
    \/ ForLoop
    \/ GeneratorRaises
    \/ GeneratorReturns
    \/ Parse
    \/ OnAttemptReturns
    \/ OnAttemptRaises
    \/ WriteFiles
    \/ WriteFilesFails
    \/ TemporaryDirectoryFails
    \/ CheckRules
    \/ TestRules
    \/ ValidateDashboard
    \/ OnValidationReturns
    \/ OnValidationRaises
    \/ Decide

Spec == Init /\ [][Next]_vars

\* the calls are synchronous: the generator, the checker and the callbacks
\* each return or raise, and the code between them runs on
SpecFair == Init /\ [][Next]_vars /\ WF_vars(Next)

\* ------------------------------------------- the same agent called twice
\* CallAgain with the loop variable kept on the instance between calls
CallAgainKeepsAttempt ==
    /\ pc = "done" /\ compare # "none" /\ run = 1
    /\ run' = 2
    /\ first' = Done
    /\ IF compare = "callbacks"
       THEN on_attempt' \in BOOLEAN /\ on_validation' \in BOOLEAN
       ELSE UNCHANGED <<on_attempt, on_validation>>
    /\ messages' = InitialMessages(kind)
    /\ pc' = "for"
    /\ content' = <<>>
    /\ data' = None
    /\ verdict' = NoVerdict
    /\ result' = NoResult
    /\ genCalls' = <<>>
    /\ verdicts' = <<>>
    /\ vpc' = "enter"
    /\ vlogs' = <<>>
    /\ check_result' = NoProc
    /\ test_result' = NoProc
    /\ invocations' = <<>>
    /\ procCalls' = 0
    /\ cbCalls' = 0
    /\ UNCHANGED <<kind, max_retries, attempt, tmpfiles, compare, other,
                   genScript, procScript, cbScript, dashVars>>

\* the first call has returned and the method is called again on the same
\* agent with the same request and bound: the locals are new, the agent
\* holds the client and the model name only, the stubs start their scripts
\* over; the callbacks are the same ones ("rerun") or any ("callbacks")
CallAgain ==
    /\ pc = "done" /\ compare # "none" /\ run = 1
    /\ run' = 2
    /\ first' = Done
    /\ IF compare = "callbacks"
       THEN on_attempt' \in BOOLEAN /\ on_validation' \in BOOLEAN
       ELSE UNCHANGED <<on_attempt, on_validation>>
    /\ messages' = InitialMessages(kind)
    /\ attempt' = 0
    /\ pc' = "for"
    /\ content' = <<>>
    /\ data' = None
    /\ verdict' = NoVerdict
    /\ result' = NoResult
    /\ genCalls' = <<>>
    /\ verdicts' = <<>>
    /\ vpc' = "enter"
    /\ vlogs' = <<>>
    /\ check_result' = NoProc
    /\ test_result' = NoProc
    /\ invocations' = <<>>
    /\ procCalls' = 0
    /\ cbCalls' = 0
    /\ UNCHANGED <<kind, max_retries, tmpfiles, compare, other, genScript,
                   procScript, cbScript, dashVars>>

NextTwice == Next \/ CallAgain

\* the same call made twice, every collaborator scripted
InitTwice == Entered /\ Calls("rerun")

SpecTwice == InitTwice /\ [][NextTwice]_vars

\* a call without callbacks, then the same call with callbacks that may
\* raise, generator and validator scripted
InitCallbacks ==
    /\ Entered /\ Calls("callbacks")
    /\ ~on_attempt /\ ~on_validation

SpecCallbacks == InitCallbacks /\ [][NextTwice]_vars

\* --------------------------- two calls on the same agent at the same time
\* the locals of the running call, those of validate_prometheus_rules and
\* its temporary directory (whose name is the call's own) included
Frame ==
    [messages |-> messages, attempt |-> attempt, pc |-> pc, content |-> content,
     data |-> data, verdict |-> verdict, result |-> result,
     genCalls |-> genCalls, verdicts |-> verdicts, vpc |-> vpc,
     tmpfiles |-> tmpfiles, vlogs |-> vlogs, check_result |-> check_result,
     test_result |-> test_result, invocations |-> invocations,
     procCalls |-> procCalls, cbCalls |-> cbCalls]

\* the locals of a call that has just been entered
NewFrame ==
    [messages |-> InitialMessages(kind), attempt |-> 0, pc |-> "for",
     content |-> <<>>, data |-> None, verdict |-> NoVerdict,
     result |-> NoResult, genCalls |-> <<>>, verdicts |-> <<>>,
     vpc |-> "enter", tmpfiles |-> {}, vlogs |-> <<>>,
     check_result |-> NoProc, test_result |-> NoProc, invocations |-> <<>>,
     procCalls |-> 0, cbCalls |-> 0]

\* the locals of frame f become the running call's
Resume(f) ==
    /\ messages' = f.messages
    /\ pc' = f.pc
    /\ content' = f.content
    /\ data' = f.data
    /\ verdict' = f.verdict
    /\ result' = f.result
    /\ genCalls' = f.genCalls
    /\ verdicts' = f.verdicts
    /\ vpc' = f.vpc
    /\ tmpfiles' = f.tmpfiles
    /\ vlogs' = f.vlogs
    /\ check_result' = f.check_result
    /\ test_result' = f.test_result
    /\ invocations' = f.invocations
    /\ procCalls' = f.procCalls
    /\ cbCalls' = f.cbCalls

\* the first call has returned; two threads now make the same call on the
\* same agent, each with locals of its own, the stubs giving each what they
\* gave the first call
CallConcurrently ==
    /\ pc = "done" /\ compare = "concurrent" /\ run = 1
    /\ run' = 2
    /\ first' = Done
    /\ Resume(NewFrame)
    /\ attempt' = NewFrame.attempt
    /\ other' = NewFrame
    /\ UNCHANGED <<kind, max_retries, on_attempt, on_validation, compare,
                   genScript, procScript, cbScript, dashVars>>

\* Switch with the loop variable kept on the agent, for both calls to use
SwitchSharingAttempt ==
    /\ compare = "concurrent" /\ run >= 2
    /\ run' = 5 - run
    /\ other' = Frame
    /\ Resume(other)
    /\ UNCHANGED <<kind, max_retries, on_attempt, on_validation, attempt, compare,
                   first, genScript, procScript, cbScript, dashVars>>

\* the scheduler lets the other thread run: the agent holds the client and
\* the model name only, which no call writes, so all that changes hands is
\* the locals
Switch ==
    /\ compare = "concurrent" /\ run >= 2
    /\ run' = 5 - run
    /\ other' = Frame
    /\ Resume(other)
    /\ attempt' = other.attempt
    /\ UNCHANGED <<kind, max_retries, on_attempt, on_validation, compare, first,
                   genScript, procScript, cbScript, dashVars>>

NextConcurrent ==
    \/ ForLoop
    \/ GeneratorRaises
    \/ GeneratorReturns
    \/ Parse
    \/ OnAttemptReturns
    \/ WriteFiles
    \/ CheckRules
    \/ TestRules
    \/ ValidateDashboard
    \/ OnValidationReturns
    \/ Decide
    \/ CallConcurrently
    \/ Switch

\* a call without callbacks alone, then twice at the same time
InitConcurrent ==
    /\ Entered /\ Calls("concurrent")
    /\ ~on_attempt /\ ~on_validation

SpecConcurrent == InitConcurrent /\ [][NextConcurrent]_vars

\* ------------------------------ validate_grafana_dashboard, called alone
InitDash ==
    /\ dashboard \in Dashboards
    /\ dverdict = NoVerdict
    /\ kind = "dashboard"
    /\ max_retries = 0
    /\ on_attempt = FALSE
    /\ on_validation = FALSE
    /\ messages = <<>>
    /\ attempt = 0
    /\ pc = "call"
    /\ content = <<>>
    /\ data = None
    /\ verdict = NoVerdict
    /\ result = NoResult
    /\ vpc = "enter"
    /\ tmpfiles = {}
    /\ vlogs = <<>>
    /\ check_result = NoProc
    /\ test_result = NoProc
    /\ invocations = <<>>
    /\ genCalls = <<>>
    /\ verdicts = <<>>
    /\ OneCall

CallValidateDashboard ==
    /\ pc = "call"
    /\ dverdict' = validate_grafana_dashboard(dashboard)
    /\ pc' = "returned"
    /\ UNCHANGED <<kind, max_retries, on_attempt, on_validation, messages, attempt,
                   content, data, verdict, result, genCalls, verdicts, ruleVars,
                   dashboard, twinVars>>

NextDash == CallValidateDashboard

SpecDash == InitDash /\ [][NextDash]_vars

\* ================================================================ claims
LastVerdict == verdicts[Len(verdicts)]

CheckInvocation == <<"promtool", "check", "rules", RulePath>>
TestInvocation == <<"promtool", "test", "rules", TestPath>>

\* C1: for every max_attempts >= 1 a run makes at most max_attempts generator
\* invocations, whatever the generator, the validator and the callbacks do.
C1_GeneratorCallsBounded ==
    max_retries >= 1 => Len(genCalls) <= max_retries

\* a finished run that used its whole budget of at least two attempts
C1_Witness ==
    pc = "done" /\ max_retries >= 2 /\ Len(genCalls) = max_retries

\* C2: a run returns success=true only when the validator passed, in the same
\* attempt, exactly the artifact that is returned, and the returned log is
\* that verdict's log.
C2_SuccessOnlyIfValidated ==
    (result.returned /\ result.success) =>
        /\ verdicts # <<>>
        /\ LastVerdict.valid
        /\ LastVerdict.attempt = attempt
        /\ LastVerdict.artifact = result.artifact
        /\ LastVerdict.logs = result.log
        /\ result.artifact # None

\* success on the second attempt, after a failing first verdict
C2_Witness ==
    /\ result.returned /\ result.success
    /\ Len(verdicts) = 2 /\ ~verdicts[1].valid

\* C3: once the validator has returned passed=true on attempt k, no further
\* generator invocation is made and the run returns success=true with
\* attempt k's artifact.
C3_PassedVerdictEndsRun ==
    \A i \in 1..Len(verdicts) :
        verdicts[i].valid =>
            /\ Len(genCalls) <= verdicts[i].attempt
            /\ pc = "done" =>
                  (result.success /\ result.artifact = verdicts[i].artifact)

\* C4: when every attempt reached the validator and every verdict failed,
\* the run returns success=false with the last attempt's candidate and the
\* last verdict's log.
C4_AllFailedReturnsLastVerdict ==
    ( /\ pc = "done" /\ max_retries >= 1
      /\ Len(verdicts) = max_retries
      /\ \A i \in 1..Len(verdicts) :
            verdicts[i].attempt = i /\ ~verdicts[i].valid )
    => result = Ret(FALSE, LastVerdict.artifact, LastVerdict.logs)

\* C5: the conversation changes only by the two corrective turns appended
\* right after a failing verdict of the current attempt; a generator failure,
\* a parse failure or a missing-field failure leaves it as it was.
C5_CorrectionOnlyAfterFailingVerdict ==
    [][ messages' # messages =>
          /\ pc = "decide"
          /\ verdicts # <<>>
          /\ LastVerdict.attempt = attempt
          /\ ~LastVerdict.valid
          /\ messages' = messages \o
                << Message("assistant", content),
                   Message("user", CorrectionText(kind, LastVerdict.logs)) >>
      ]_vars

\* a run whose first attempt was corrected and whose second attempt failed
\* before validation: the conversation holds the one correction only
C5_Witness ==
    /\ pc = "done" /\ Len(genCalls) = 2 /\ Len(verdicts) = 1
    /\ Len(messages) = 4 /\ ~result.success

\* C6: whatever each attempt does, the run never ends in an unhandled fault:
\* it is at a position of the loop from which it can go on, or it has
\* returned a (success, artifact, log) triple.
C6_EveryRunReturnsATriple ==
    /\ pc \in {"for", "create", "parse", "on_attempt", "validate",
               "on_validation", "decide", "done"}
    /\ pc = "done" <=> result.returned
    /\ result.returned =>
          /\ result.success \in BOOLEAN
          /\ result.success => result.artifact # None
    /\ pc # "done" => ENABLED Next

\* a failing callback on the last attempt, returned as a result
C6_Witness ==
    /\ pc = "done" /\ max_retries >= 1
    /\ result = Ret(FALSE, None, <<"on_validation failed">>)

\* C7: when `check rules` exits non-zero, `test rules` is not run in that
\* call, the verdict fails, and its log is made of the fixed text and the
\* stdout and stderr of the syntax phase only.
C7_SyntaxFailureSkipsTests ==
    (check_result.kind = "exit" /\ check_result.rc # 0) =>
        /\ invocations = <<CheckInvocation>>
        /\ test_result = NoProc
        /\ vpc = "enter"
        /\ ~verdict.valid
        /\ Contains(verdict.logs, check_result.stdout)
        /\ Contains(verdict.logs, check_result.stderr)
        /\ Range(verdict.logs) \subseteq
              Range(check_result.stdout) \cup Range(check_result.stderr)
              \cup {"Syntax Check: FAILED", "STDOUT:", "STDERR:", NL}

\* the validator has returned after a non-zero `check rules`
C7_Witness ==
    /\ pc = "on_validation"
    /\ check_result.kind = "exit" /\ check_result.rc = 1

\* C8: outside a running validation call nothing of the temporary directory
\* exists, whichever way the call was left.
C8_NoTempFilesAfterValidation ==
    (pc # "validate" \/ vpc = "enter") => tmpfiles = {}

\* the call wrote its files, found no checker, and has returned
C8_Witness ==
    /\ pc = "on_validation" /\ check_result.kind = "notfound"
    /\ invocations = <<CheckInvocation>>
    /\ tmpfiles = {}

\* the logs a non-zero exit of either phase produces
NonZeroExitLogs ==
    {SyntaxFailedMsg(p) : p \in {q \in ProcOutcomes : q.kind = "exit" /\ q.rc # 0}}
    \cup {Join(SyntaxPassedLogs(ok) \o <<TestsFailedMsg(p)>>) :
            ok \in {q \in ProcOutcomes : ExitedZero(q)},
            p \in {q \in ProcOutcomes : q.kind = "exit" /\ q.rc # 0}}

\* C9: a timeout or a missing checker, in either phase, makes the validator
\* return a failing verdict with a diagnostic (no exception leaves it), and
\* the diagnostic of a timeout is none of those of a non-zero exit.
C9_TimeoutAndAbsenceAreFailingVerdicts ==
    [][ LET phase1 == check_result' # check_result
                      /\ check_result'.kind \in {"timeout", "notfound"}
            phase2 == test_result' # test_result
                      /\ test_result'.kind \in {"timeout", "notfound"}
            timeout == \/ check_result' # check_result /\ check_result'.kind = "timeout"
                       \/ test_result' # test_result /\ test_result'.kind = "timeout"
        IN (phase1 \/ phase2) =>
              /\ pc' = "on_validation"
              /\ result' = result
              /\ verdicts' = Append(verdicts, VerdictRecord(FALSE, verdict'.logs))
              /\ ~verdict'.valid
              /\ verdict'.logs # <<>>
              /\ timeout => verdict'.logs \notin NonZeroExitLogs
      ]_vars

\* the validator has returned after `test rules` timed out
C9_Witness ==
    /\ pc = "on_validation" /\ test_result.kind = "timeout"
    /\ ~verdict.valid /\ verdict.logs = TestTimeoutLog

\* the tokens that tell the kinds of violation in a dashboard log apart
ViolationCategories(log) ==
    Range(log) \cap {MissingRequired, "should be", NoPanelsMsg, "Missing",
                     "gridPos missing", "'targets' should be a list",
                     "No targets (queries) defined", "Missing 'expr' or 'query'"}

PanelLevelTokens == {PanelFailedHeader, NoPanelsMsg, "Panel"}

MistypedTitle(d) == "title" \in DOMAIN d /\ d["title"].t # "str"

\* C10 as stated: a dashboard without 'panels' fails, its log reports the one
\* category 'missing required field', and no panel-level check is made.
C10_MissingPanelsOneCategory ==
    (pc = "returned" /\ "panels" \notin DOMAIN dashboard) =>
        /\ ~dverdict.raised /\ ~dverdict.valid
        /\ ViolationCategories(dverdict.logs) = {MissingRequired}
        /\ Range(dverdict.logs) \cap PanelLevelTokens = {}

\* C10 (amended): a dashboard without 'panels' fails at the top level, its log
\* lists the missing 'panels', no panel-level check is made, and the log
\* reports the one category 'missing required field' unless 'title' is present
\* with a wrong type, which is then reported as well.
C10_MissingPanelsFailsAtTopLevel ==
    (pc = "returned" /\ "panels" \notin DOMAIN dashboard) =>
        /\ ~dverdict.raised /\ ~dverdict.valid
        /\ dverdict.logs[1] = SchemaFailedHeader
        /\ Contains(dverdict.logs, <<MissingRequired, "panels">>)
        /\ Range(dverdict.logs) \cap PanelLevelTokens = {}
        /\ ViolationCategories(dverdict.logs) =
              IF MistypedTitle(dashboard)
              THEN {MissingRequired, "should be"}
              ELSE {MissingRequired}

\* a validated dashboard without 'panels' whose 'title' is a number
C10_Witness ==
    /\ pc = "returned" /\ "panels" \notin DOMAIN dashboard
    /\ MistypedTitle(dashboard)

\* the top level passes the required-field check
TopLevelValid(d) ==
    /\ "title" \in DOMAIN d /\ d["title"].t = "str"
    /\ "panels" \in DOMAIN d /\ d["panels"].t = "list"

\* every panel is a JSON object
AllObjectPanels(d) ==
    \A n \in 1..Len(d["panels"].items) : d["panels"].items[n].t = "dict"

\* the panels of d (objects), by 1-based position
PanelAt(d, n) == d["panels"].items[n].obj

HasTargetList(p) == "targets" \in DOMAIN p /\ p["targets"].t = "list"

\* the violations the panels of d have, each as the message that reports it,
\* read off the dashboard itself
ExpectedViolations(d) ==
    LET N == 1..Len(d["panels"].items) IN
    {<<"Panel", ToString(x[1] - 1), ":", "Missing", x[2]>> :
        x \in {y \in N \X {"id", "type", "title", "gridPos"} :
                  y[2] \notin DOMAIN PanelAt(d, y[1])}}
    \cup
    {<<"Panel", ToString(x[1] - 1), ":", "gridPos missing", x[2]>> :
        x \in {y \in N \X {"x", "y", "w", "h"} :
                  /\ "gridPos" \in DOMAIN PanelAt(d, y[1])
                  /\ y[2] \notin DOMAIN PanelAt(d, y[1])["gridPos"].obj}}
    \cup
    {<<"Panel", ToString(n - 1), ":", "No targets (queries) defined">> :
        n \in {m \in N : /\ HasTargetList(PanelAt(d, m))
                         /\ PanelAt(d, m)["targets"].items = <<>>}}
    \cup
    UNION {
      LET ts == PanelAt(d, n)["targets"].items IN
      {<<"Panel", ToString(n - 1), ", Target", ToString(j - 1), ":",
         "Missing 'expr' or 'query'">> :
          j \in {k \in 1..Len(ts) : /\ "expr" \notin DOMAIN ts[k].obj
                                    /\ "query" \notin DOMAIN ts[k].obj}}
      \cup
      {<<"Panel", ToString(n - 1), ", Target", ToString(j - 1), ":",
         "Missing", "refId">> :
          j \in {k \in 1..Len(ts) : "refId" \notin DOMAIN ts[k].obj}}
      : n \in {m \in N : HasTargetList(PanelAt(d, m))} }

WellFormedTarget(t) ==
    /\ t.t = "dict"
    /\ "expr" \in DOMAIN t.obj \/ "query" \in DOMAIN t.obj
    /\ "refId" \in DOMAIN t.obj

WellFormedPanel(p) ==
    /\ {"id", "type", "title", "gridPos"} \subseteq DOMAIN p
    /\ {"x", "y", "w", "h"} \subseteq DOMAIN p["gridPos"].obj
    /\ HasTargetList(p)
    /\ p["targets"].items # <<>>
    /\ \A k \in 1..Len(p["targets"].items) :
          WellFormedTarget(p["targets"].items[k])

RequiredStructure(d) ==
    /\ TopLevelValid(d) /\ AllObjectPanels(d)
    /\ d["panels"].items # <<>>
    /\ \A n \in 1..Len(d["panels"].items) : WellFormedPanel(PanelAt(d, n))

\* C12: every dashboard that has the required structure gets passed=true,
\* whichever advisory fields are missing and whichever query-sanity warnings
\* apply; the advisory findings are in the log only.
C12_RequiredStructurePasses ==
    (pc = "returned" /\ RequiredStructure(dashboard)) =>
        /\ ~dverdict.raised
        /\ dverdict.valid

\* C13: every dashboard that passed has at least one panel, every panel has
\* at least one target, and every target carries expr or query.
C13_PassedDashboardHasTargets ==
    (pc = "returned" /\ ~dverdict.raised /\ dverdict.valid) =>
        /\ "panels" \in DOMAIN dashboard
        /\ dashboard["panels"].items # <<>>
        /\ \A n \in 1..Len(dashboard["panels"].items) :
              LET p == PanelAt(dashboard, n) IN
              /\ HasTargetList(p)
              /\ p["targets"].items # <<>>
              /\ \A k \in 1..Len(p["targets"].items) :
                    \/ "expr" \in DOMAIN p["targets"].items[k].obj
                    \/ "query" \in DOMAIN p["targets"].items[k].obj

\* the fields a candidate must have to reach the validator
FieldsChecked(k) ==
    IF k = "query" THEN {"reasoning", "rule_yaml", "test_yaml"}
    ELSE {"grafana_dashboard"}

\* the fields of a candidate as the claim lists them
FieldsListed(k) ==
    IF k = "query" THEN {"reasoning", "rule_yaml", "test_yaml"}
    ELSE {"reasoning", "grafana_dashboard"}

\* a candidate lacking one of the given fields never reaches the validator:
\* no verdict is for such a candidate, the run is never at the validator or
\* beyond with one, and a run ended with one returned no artifact
RejectedBeforeValidation(fields(_)) ==
    /\ \A i \in 1..Len(verdicts) :
          fields(kind) \subseteq DOMAIN verdicts[i].artifact
    /\ (data # None /\ ~(fields(kind) \subseteq DOMAIN data)) =>
          /\ pc \in {"for", "create", "parse", "done"}
          /\ pc \in {"for", "done"} => \A i \in 1..Len(verdicts) :
                                          verdicts[i].attempt < attempt
          /\ pc = "done" => (~result.success /\ result.artifact = None)

\* C15 as stated: a candidate lacking any of its fields (query: reasoning,
\* rule_yaml, test_yaml; dashboard: reasoning, grafana_dashboard) is rejected
\* before validation, the validator not being invoked for that attempt.
C15_MissingFieldNeverValidated == RejectedBeforeValidation(FieldsListed)

\* C15 (amended): a candidate lacking reasoning, rule_yaml or test_yaml
\* (query) or grafana_dashboard (dashboard) is rejected before validation and
\* the validator is not invoked for that attempt; a dashboard candidate that
\* lacks only reasoning is validated.
C15_CheckedFieldNeverValidated ==
    /\ RejectedBeforeValidation(FieldsChecked)
    /\ (kind = "dashboard" /\ pc \in {"validate", "on_validation", "decide"})
          => "grafana_dashboard" \in DOMAIN data

\* a query run whose first candidate was validated and whose second, lacking
\* test_yaml, ended the run unvalidated
C15_Witness ==
    /\ pc = "done" /\ kind = "query" /\ attempt = 2
    /\ data # None /\ "test_yaml" \notin DOMAIN data
    /\ Len(verdicts) = 1
    /\ result = Ret(FALSE, None, <<"Missing required fields:", "test_yaml">>)

\* C17 as stated: whenever a run in which a verdict was produced ends, the
\* result carries the log of the most recent verdict.
C17_ResultCarriesLastVerdictLog ==
    (pc = "done" /\ verdicts # <<>>) => result.log = LastVerdict.logs

\* C17 (amended): a run that ends on a verdict (it returns an artifact)
\* carries the log of the most recent verdict, which is the verdict of the
\* last attempt, and of no earlier one; a run that ends on a failure of its
\* last attempt returns no artifact and carries that failure's message, not a
\* log of any verdict of the run.
C17_VerdictResultCarriesLastVerdictLog ==
    (pc = "done" /\ verdicts # <<>>) =>
        IF result.artifact # None
        THEN /\ result.log = LastVerdict.logs
             /\ LastVerdict.attempt = attempt
             /\ result.artifact = LastVerdict.artifact
        ELSE /\ ~result.success
             /\ \A i \in 1..Len(verdicts) : result.log # verdicts[i].logs

\* two verdicts with different logs, the run ended on the second
C17_Witness ==
    /\ pc = "done" /\ Len(verdicts) = 2
    /\ result.artifact # None
    /\ verdicts[1].logs # verdicts[2].logs
    /\ result.log = verdicts[2].logs

\* C18: when the generator call fails on the final attempt the run returns
\* success=false, no artifact and the raw error message; on a non-final
\* attempt the run goes on to the next attempt number and the next generator
\* call receives exactly the conversation the failed call received.
C18_AdapterFailure ==
    [][ /\ (pc = "create" /\ pc' # "parse") =>
              /\ genCalls' = Append(genCalls, messages)
              /\ messages' = messages /\ attempt' = attempt
              /\ verdicts' = verdicts
              /\ IF attempt = max_retries
                 THEN /\ pc' = "done"
                      /\ \E e \in GeneratorErrors : result' = Ret(FALSE, None, e)
                 ELSE pc' = "for" /\ result' = result
        /\ (pc = "for" /\ attempt < max_retries) =>
              /\ attempt' = attempt + 1 /\ pc' = "create"
              /\ messages' = messages /\ genCalls' = genCalls
        /\ pc = "create" => genCalls' = Append(genCalls, messages)
      ]_vars

\* both generator calls of a run failed: the second received what the first
\* received and the run returned the second's error
C18_Witness ==
    /\ pc = "done" /\ Len(genCalls) = 2 /\ content = <<>>
    /\ genCalls[1] = genCalls[2]
    /\ result = Ret(FALSE, None, <<"ProviderError">>)

\* C19: after a failing verdict on an attempt before the last the
\* conversation is the one the generator received, extended by exactly two
\* turns: the raw completion as assistant, then a user turn holding that
\* verdict's whole log; after a failing verdict on the last attempt nothing
\* is appended.
C19_FailingVerdictAppendsTwoTurns ==
    /\ ( /\ pc = "for" /\ verdicts # <<>>
         /\ LastVerdict.attempt = attempt /\ ~LastVerdict.valid )
       => /\ messages = genCalls[Len(genCalls)] \o
                << Message("assistant", content),
                   Message("user", CorrectionText(kind, LastVerdict.logs)) >>
          /\ Contains(messages[Len(messages)].content, LastVerdict.logs)
    /\ ( /\ pc = "done" /\ verdicts # <<>>
         /\ LastVerdict.attempt = max_retries /\ ~LastVerdict.valid )
       => messages = genCalls[Len(genCalls)]

IsPrefix(s, t) == Len(s) <= Len(t) /\ SubSeq(t, 1, Len(s)) = s

\* C20: the conversation only grows: what each generator call receives has
\* what every earlier call received as a prefix, and the first two turns
\* (instructions and request) are never changed or removed.
C20_ConversationGrowsMonotonically ==
    /\ \A i, j \in 1..Len(genCalls) :
          i <= j => IsPrefix(genCalls[i], genCalls[j])
    /\ \A i \in 1..Len(genCalls) :
          SubSeq(genCalls[i], 1, 2) = InitialMessages(kind)
    /\ genCalls # <<>> => IsPrefix(genCalls[Len(genCalls)], messages)
    /\ SubSeq(messages, 1, 2) = InitialMessages(kind)

\* a second generator call that received the corrected conversation
C20_Witness ==
    /\ Len(genCalls) = 2
    /\ Len(genCalls[1]) = 2 /\ Len(genCalls[2]) = 4

\* C14: the same call made twice on one agent, with the same request, bound
\* and callbacks and with generator, checker and callbacks doing at each use
\* what they did the first time, returns the same (success, artifact) pair;
\* nothing of the first call is left for the second to see: every generator
\* call of the second receives what the first's received, and every verdict
\* is repeated.
C14_SecondCallReturnsTheSame ==
    (run = 2 /\ pc = "done") =>
        /\ result.success = first.result.success
        /\ result.artifact = first.result.artifact
        /\ genCalls = first.genCalls
        /\ verdicts = first.verdicts
        /\ tmpfiles = {}

\* both calls succeeded on their second attempt, after a corrected first
C14_Witness ==
    /\ compare = "rerun" /\ run = 2 /\ pc = "done"
    /\ result.success /\ first.result.success
    /\ Len(genCalls) = 2 /\ Len(verdicts) = 2

\* C16: the callbacks have no bearing on control flow: with generator and
\* validator doing the same at each use, a call with callbacks (returning or
\* raising) makes the generator and validator invocations, and returns the
\* (success, artifact, log), of the call without callbacks.
C16_CallbacksHaveNoBearing ==
    (compare = "callbacks" /\ run = 2 /\ pc = "done") =>
        /\ result = first.result
        /\ genCalls = first.genCalls
        /\ verdicts = first.verdicts

\* C21: every run with max_attempts >= 1 ends, returning success=true with an
\* artifact (Accepted) or success=false (Rejected), after at most
\* max_attempts generator calls; the conversation is corrected only from the
\* decision on a failing verdict with attempts remaining, and the correction
\* leads to the next generator call.
C21_EveryRunTerminates ==
    /\ (max_retries >= 1) => <>(pc = "done")
    /\ [](pc = "done" =>
            /\ result.returned /\ result.success \in BOOLEAN
            /\ result.success => result.artifact # None
            /\ Len(genCalls) <= max_retries)
    /\ [][ /\ messages' # messages =>
                /\ pc = "decide" /\ ~verdict.valid /\ attempt < max_retries
                /\ pc' = "for" /\ attempt' = attempt
           /\ (pc = "for" /\ attempt < max_retries) =>
                (pc' = "create" /\ attempt' = attempt + 1)
         ]_vars

\* a run of two attempts has ended after a correction
C21_Witness ==
    /\ pc = "done" /\ max_retries = 2
    /\ Len(genCalls) = 2 /\ Len(messages) = 4

\* C22: within an attempt the steps come in the order parse and field check,
\* attempt-observed notification, validator invocation, validation-observed
\* notification: on_attempt is reached only from a parse whose checks of the
\* candidate passed, a call of on_attempt is followed by the validator being
\* invoked in the same attempt (before any other generator call), and
\* on_validation is reached only from the validator returning a verdict.
C22_StepsOfAnAttemptInOrder ==
    [][ /\ (pc' = "on_attempt" /\ pc # "on_attempt") =>
              /\ pc = "parse" /\ attempt' = attempt
              /\ FieldsChecked(kind) \subseteq DOMAIN data'
        /\ (pc = "on_attempt" /\ on_attempt) =>
              /\ pc' = "validate" /\ attempt' = attempt
              /\ genCalls' = genCalls
              /\ kind = "dashboard" => data["grafana_dashboard"].t = "dict"
        /\ (pc' = "on_validation" /\ pc # "on_validation") =>
              /\ pc = "validate" /\ attempt' = attempt
              /\ verdicts' = Append(verdicts, VerdictRecord(verdict'.valid, verdict'.logs))
      ]_vars

\* C23: the rule validator's verdict is passed=true if and only if both
\* files were written, `check rules` ran and exited with status zero, and
\* then `test rules` ran and exited with status zero: no timeout and no
\* launch error in either phase.
C23_PassedIffBothPhasesExitZero ==
    (kind = "query" /\ pc \in {"on_validation", "decide"}) =>
        ( verdict.valid <=>
            /\ invocations = <<CheckInvocation, TestInvocation>>
            /\ check_result.kind = "exit" /\ check_result.rc = 0
            /\ test_result.kind = "exit" /\ test_result.rc = 0 )

\* a passed verdict, and before it in the same run a verdict that failed in
\* the test phase after a clean syntax phase
C23_Witness ==
    /\ kind = "query" /\ pc = "on_validation" /\ verdict.valid
    /\ Len(verdicts) = 2 /\ ~verdicts[1].valid
    /\ Contains(verdicts[1].logs, <<"Syntax Check: PASSED">>)

\* every generator call of the run returned a candidate that reached the
\* validator, and every validation found no checker
CheckerAbsentThroughout ==
    /\ kind = "query" /\ max_retries >= 1
    /\ verdicts # <<>> /\ Len(verdicts) = Len(genCalls)
    /\ \A i \in 1..Len(verdicts) :
          verdicts[i].attempt = i /\ verdicts[i].logs = NotFoundLog

\* C24: with the checker absent at every validation and a well-formed
\* candidate at every attempt the run does not stop early: it makes exactly
\* max_attempts generator calls, appends the correction after every attempt
\* but the last, and returns success=false with the last candidate and the
\* checker-absent diagnostic.
C24_CheckerAbsentUsesAllAttempts ==
    (pc = "done" /\ CheckerAbsentThroughout) =>
        /\ Len(genCalls) = max_retries
        /\ result = Ret(FALSE, LastVerdict.artifact, NotFoundLog)
        /\ Len(messages) = 2 * max_retries
        /\ \A i \in 1..(max_retries - 1) :
              /\ messages[2 * i + 1].role = "assistant"
              /\ messages[2 * i + 2] =
                    Message("user", CorrectionText(kind, NotFoundLog))
              /\ genCalls[i + 1] = SubSeq(messages, 1, 2 * i + 2)

\* the targets of a passed dashboard that carry a text expr, as
\* <<panel position, target position>>
TextExprTargets(d) ==
    {x \in (1..MaxPanels) \X (1..2) :
        /\ x[1] <= Len(d["panels"].items)
        /\ HasTargetList(PanelAt(d, x[1]))
        /\ x[2] <= Len(PanelAt(d, x[1])["targets"].items)
        /\ "expr" \in DOMAIN PanelAt(d, x[1])["targets"].items[x[2]].obj
        /\ PanelAt(d, x[1])["targets"].items[x[2]].obj["expr"].t = "str"}

ExprAt(d, x) == PanelAt(d, x[1])["targets"].items[x[2]].obj["expr"].s

SanityWarning(x, text) ==
    <<"Panel", ToString(x[1] - 1), ", Target", ToString(x[2] - 1), ":", text>>

\* the log warns of the empty braces or brackets of every target that has them
BracesWarned ==
    \A x \in TextExprTargets(dashboard) :
        ("{}" \in Range(ExprAt(dashboard, x)) \/ "[]" \in Range(ExprAt(dashboard, x)))
            => Contains(dverdict.logs,
                        SanityWarning(x, "Query contains empty braces/brackets"))

\* C26: the log of a passing verdict holds a query-sanity warning for every
\* target whose expr contains empty braces or empty brackets and for every
\* target whose expr is the empty string.
C26_SanityWarningsForEveryTarget ==
    (pc = "returned" /\ ~dverdict.raised /\ dverdict.valid) =>
        /\ BracesWarned
        /\ \A x \in TextExprTargets(dashboard) :
              ExprAt(dashboard, x) = <<>>
                  => Contains(dverdict.logs, SanityWarning(x, "Empty query"))

FallThrough == Ret(FALSE, None, <<"Max retries reached">>)

\* C27: with max_attempts >= 1 the result after the loop (success=false, no
\* artifact, 'Max retries reached') is never returned, every run returning
\* from inside an attempt; it is returned only with max_attempts <= 0, and
\* then without any generator call.
C27_FallThroughOnlyWithoutAttempts ==
    pc = "done" =>
        /\ max_retries >= 1 =>
              /\ result # FallThrough
              /\ result.log # <<"Max retries reached">>
              /\ attempt \in 1..max_retries /\ Len(genCalls) = attempt
        /\ result = FallThrough => (max_retries <= 0 /\ genCalls = <<>>)
        /\ max_retries <= 0 => (result = FallThrough /\ genCalls = <<>>)

\* a run of two attempts returned the parse failure of its last attempt
C27_Witness ==
    /\ pc = "done" /\ max_retries = 2 /\ attempt = 2
    /\ result = Ret(FALSE, None, <<"JSON parsing failed:", "Expecting value">>)

\* C25: two calls running at the same time on one agent, interleaved in any
\* order, share no mutable state: when either has returned, its conversation,
\* its attempt counter and its result (and what its generator and validator
\* calls were given and gave) are those of the call made alone with the same
\* generator and checker outcomes; a call that has not started has lost
\* nothing to the other.
C25_ConcurrentCallsAreIndependent ==
    (compare = "concurrent" /\ run >= 2) =>
        /\ pc = "done" => Done = first
        /\ other.pc = "done" =>
              /\ other.result = first.result
              /\ other.attempt = first.attempt
              /\ other.messages = first.messages
              /\ other.genCalls = first.genCalls
              /\ other.verdicts = first.verdicts
        /\ IsPrefix(genCalls, first.genCalls)
        /\ IsPrefix(other.genCalls, first.genCalls)

\* both concurrent calls have returned after two attempts each, and the
\* second to start returned first
C25_Witness ==
    /\ compare = "concurrent" /\ run = 2
    /\ pc # "done" /\ attempt = 2 /\ Len(genCalls) = 2
    /\ other.pc = "done" /\ other.attempt = 2 /\ Len(other.messages) = 4

====
